---- MODULE Spec2Model ----
(***************************************************************************)
(* PageService (server/src/services/page.service.ts): pages, components,   *)
(* layouts and event handlers of one application version, with the         *)
(* create / clone / update / reorder / delete operations of the service.   *)
(*                                                                         *)
(* Requests are served one at a time.  What runs concurrently inside one   *)
(* request is kept concurrent: the per-component callbacks of              *)
(* clonePageEventsAndComponents (each await is a step of its own) and the  *)
(* cascade delete that deletePage starts without awaiting it.              *)
(*                                                                         *)
(* Strings are sequences of one-character strings, so that the template    *)
(* literals and String.prototype.includes are computed, not assumed.       *)
(***************************************************************************)
EXTENDS Integers, Sequences, FiniteSets, TLC

\* Bounds of the model.
MaxPageId == 4      \* page ids are handed out 1..MaxPageId, never reused
MaxIndex == 2       \* callers pass page indexes in 0..MaxIndex
MaxRequests == 2    \* requests served in one behaviour

\* The value of a missing property / an absent key (JavaScript undefined, SQL NULL).
undefined == 0

VARIABLES
  pages,            \* rows of the page table
  components,       \* rows of the component table
  layouts,          \* rows of the layout table
  events,           \* rows of the event handler table
  editingVersion,   \* the version entity: [homePageId]
  nextPageId,       \* the next page id the store or a caller generates
  cascadePending,   \* source ids whose cascadeDeleteEvents was started, not finished
  served,           \* number of requests served so far
  pc,               \* position of the request being served
  clone,            \* clonePage's locals: pageId, clonePageId, pageComponents
  cpc,              \* position of each per-component callback of Promise.all
  componentsIdMap,  \* the remap table of clonePageEventsAndComponents
  clonedLayouts,    \* per callback: the layout rows it is about to save
  clonedEvents,     \* per callback: the event rows it is about to save
  pre,              \* history: the rows held when the last request was called
  lastOp            \* history: the last request, its arguments and its outcome

vars == <<pages, components, layouts, events, editingVersion, nextPageId,
          cascadePending, served, pc, clone, cpc, componentsIdMap,
          clonedLayouts, clonedEvents, pre, lastOp>>

-----------------------------------------------------------------------------
\* Strings

Home == <<"H", "o", "m", "e">>
home == <<"h", "o", "m", "e">>
Page2 == <<"B">>
page2 == <<"b">>

DigitChars == <<"0", "1", "2", "3", "4", "5", "6", "7", "8", "9">>

\* `${n}` for a non-negative integer n: its decimal digits.
RECURSIVE numberToString(_)
numberToString(n) ==
  IF n < 10 THEN <<DigitChars[n + 1]>>
  ELSE numberToString(n \div 10) \o <<DigitChars[(n % 10) + 1]>>

\* s.includes(sub)
includes(s, sub) ==
  \E i \in 0..(Len(s) - Len(sub)) : SubSeq(s, i + 1, i + Len(sub)) = sub

\* `${name} (copy)` and `${handle}-copy`
copyName(name) == name \o <<" ", "(", "c", "o", "p", "y", ")">>
copyHandle(handle) == handle \o <<"-", "c", "o", "p", "y">>

\* `${name} (copy ${n})` and `${handle}-copy-${n}`
copyNameN(name, n) ==
  name \o <<" ", "(", "c", "o", "p", "y", " ">> \o numberToString(n) \o <<")">>
copyHandleN(handle, n) ==
  handle \o <<"-", "c", "o", "p", "y", "-">> \o numberToString(n)

-----------------------------------------------------------------------------
\* The store

AppVersionId == "v1"

PageIds == {p.id : p \in pages}
PageById(id) == CHOOSE p \in pages : p.id = id

\* pageRepository.find({ appVersionId }) as a set of rows
findPages(rows, appVersionId) == {p \in rows : p.appVersionId = appVersionId}

\* manager.find(Component, { pageId })
findComponents(rows, pageId) == {c \in rows : c.pageId = pageId}

\* manager.find(Layout, { componentId })
findLayouts(rows, componentId) == {l \in rows : l.componentId = componentId}

\* eventHandlerService.findAllEventsWithSourceId(sourceId)
findAllEventsWithSourceId(rows, sourceId) == {e \in rows : e.sourceId = sourceId}

\* The id the store generates for the copy of row `id` made for page
\* `clonePageId` (the rows are saved with id: undefined).  Page ids are below
\* 10 and never reused, so the generated ids are fresh and pairwise distinct.
generatedId(id, clonePageId) == id * 10 + clonePageId

\* componentsIdMap[key]: undefined for a key that was never assigned
lookup(map, key) == IF key \in DOMAIN map THEN map[key] ELSE undefined

Snapshot ==
  [pages |-> pages, components |-> components, layouts |-> layouts,
   events |-> events, cascadePending |-> cascadePending]

Op(kind, pageId, status) ==
  [kind |-> kind, pageId |-> pageId, status |-> status, numKeys |-> 0,
   findOrder |-> <<>>]

Idle == pc = "idle"

\* A request is accepted: none is being served, and the budget is not spent.
Accept ==
  /\ Idle
  /\ served < MaxRequests
  /\ served' = served + 1

\* The locals of clonePageEventsAndComponents when no clone is running.
NoClone == [pageId |-> undefined, clonePageId |-> undefined, pageComponents |-> {}]

-----------------------------------------------------------------------------
Page(id, name, handle, index) ==
  [id |-> id, name |-> name, handle |-> handle, index |-> index,
   appVersionId |-> AppVersionId]
Component(id, pageId, parent) == [id |-> id, pageId |-> pageId, parent |-> parent]
Layout(id, componentId) == [id |-> id, componentId |-> componentId]
EventHandler(id, sourceId, actionId, componentId) ==
  [id |-> id, sourceId |-> sourceId,
   event |-> [actionId |-> actionId, componentId |-> componentId]]

\* A version with two pages.  Page 1 carries a component tree (12 under 11),
\* layouts, a page event and component events that control components of the
\* page; page 2 carries one component and an event that controls a component
\* of page 1.  The indexes are dense from 0 or from 1; either page is home.
Init ==
  /\ \E base \in {0, 1} :
       pages = {Page(1, Home, home, base), Page(2, Page2, page2, base + 1)}
  /\ components = {Component(11, 1, undefined), Component(12, 1, 11),
                   Component(13, 2, undefined)}
  /\ layouts = {Layout(21, 11), Layout(22, 11), Layout(23, 12), Layout(24, 13)}
  /\ events = {EventHandler(31, 1, "control-component", 11),
               EventHandler(32, 11, "control-component", 12),
               EventHandler(33, 12, "control-component", 12),
               EventHandler(34, 12, "show-alert", undefined),
               EventHandler(35, 2, "control-component", 11)}
  /\ \E h \in {1, 2} : editingVersion = [homePageId |-> h]
  /\ nextPageId = 3
  /\ cascadePending = {}
  /\ served = 0
  /\ pc = "idle"
  /\ clone = NoClone
  /\ cpc = <<>>
  /\ componentsIdMap = <<>>
  /\ clonedLayouts = <<>>
  /\ clonedEvents = <<>>
  /\ pre = Snapshot
  /\ lastOp = Op("none", undefined, "ok")

\* What the callers pass.
PageIdInputs == PageIds \cup {nextPageId}
IndexInputs == 0..MaxIndex
NewPageInputs == {[name |-> copyName(Home), handle |-> <<"x">>]}

\* The locals of a finished clonePage are gone when the next request is served.
cloneIdle ==
  /\ clone' = NoClone
  /\ cpc' = <<>>
  /\ componentsIdMap' = <<>>
  /\ clonedLayouts' = <<>>
  /\ clonedEvents' = <<>>

\* What a transaction that is aborted leaves of the rows it wrote through its
\* manager: the rows as they were when it began.
abortTransaction(rowsAtBegin, rowsNow) == rowsAtBegin

-----------------------------------------------------------------------------
\* createPage (lines 44-55)

\* manager.save(Page, newPage): insert, or update of the row with that id
savePage(rows, newPage) == {p \in rows : p.id # newPage.id} \cup {newPage}

createPage ==
  /\ Accept
  /\ \E id \in PageIds \cup {nextPageId}, input \in NewPageInputs,
        index \in IndexInputs, fails \in BOOLEAN :
       /\ id <= MaxPageId
       /\ pre' = Snapshot
       /\ IF fails
            THEN /\ lastOp' = Op("createPage", id, "store error")
                 /\ pages' = abortTransaction(pages, pages)
                 /\ UNCHANGED nextPageId
            ELSE /\ pages' = savePage(pages, Page(id, input.name, input.handle, index))
                 /\ nextPageId' = IF id = nextPageId THEN nextPageId + 1 ELSE nextPageId
                 /\ lastOp' = Op("createPage", id, "ok")
  /\ UNCHANGED <<components, layouts, events, editingVersion, cascadePending, pc>>
  /\ cloneIdle

-----------------------------------------------------------------------------
\* updatePage and updatePagesOrder (lines 165-193)

\* A diff of one field, or no field at all.
FieldDiffs ==
  {[index |-> i] : i \in IndexInputs} \cup {[name |-> <<"X">>], [handle |-> <<"x">>], <<>>}

\* A diff of the reorder path: page id -> { index }, for two page ids that
\* get the indexes b and b + 1.
OrderDiffs ==
  {[k \in {a, b} |-> [index |-> IF k = a THEN i ELSE i + 1]] :
     <<a, b, i>> \in {t \in PageIdInputs \X PageIdInputs \X IndexInputs : t[1] # t[2]}}

\* pageRepository.update(pageId, diff) on one row
updateFields(page, diff) ==
  [page EXCEPT
     !.name = IF "name" \in DOMAIN diff THEN diff.name ELSE @,
     !.handle = IF "handle" \in DOMAIN diff THEN diff.handle ELSE @,
     !.index = IF "index" \in DOMAIN diff THEN diff.index ELSE @]

\* updatePagesOrder: manager.update(Page, page.id, { id, index }) for every key
updatePagesOrder(rows, diff) ==
  {IF p.id \in DOMAIN diff THEN [p EXCEPT !.index = diff[p.id].index] ELSE p : p \in rows}

\* The path updatePage takes: "order" when the diff has more than one key.
updatePath(diff) == IF Cardinality(DOMAIN diff) > 1 THEN "order" ELSE "field"

\* updatePage without the lookup of the current page.
updatePageError_noLookup(rows, pageId, diff) ==
  IF DOMAIN diff = {} THEN "store error" ELSE ""

\* The error updatePage throws on the field path, "" when it throws none.
updatePageError(rows, pageId, diff) ==
  IF pageId \notin {p.id : p \in rows} THEN "Page not found"
  ELSE IF DOMAIN diff = {} THEN "store error"   \* an update that sets nothing
  ELSE ""

updatePageWith(pageId, diff, fails) ==
  /\ pre' = Snapshot
  /\ IF updatePath(diff) = "order"
       THEN IF fails
              THEN \* a failed update aborts the transaction of updatePagesOrder
                   /\ pages' = abortTransaction(pages, updatePagesOrder(pages, diff))
                   /\ lastOp' = [Op("updatePage", pageId, "store error") EXCEPT
                                   !.numKeys = Cardinality(DOMAIN diff)]
              ELSE /\ pages' = updatePagesOrder(pages, diff)
                   /\ lastOp' = [Op("updatePage", pageId, "ok") EXCEPT
                                   !.numKeys = Cardinality(DOMAIN diff)]
       ELSE LET error == IF updatePageError(pages, pageId, diff) = "" /\ fails
                           THEN "store error"
                           ELSE updatePageError(pages, pageId, diff)
            IN  /\ pages' = IF error = ""
                              THEN {IF p.id = pageId THEN updateFields(p, diff) ELSE p :
                                      p \in pages}
                              ELSE pages
                /\ lastOp' = [Op("updatePage", pageId, IF error = "" THEN "ok" ELSE error)
                                EXCEPT !.numKeys = Cardinality(DOMAIN diff)]

updatePage ==
  /\ Accept
  /\ \E pageId \in PageIdInputs, fails \in BOOLEAN :
       \/ \E diff \in FieldDiffs : updatePageWith(pageId, diff, fails)
       \/ \E diff \in OrderDiffs : updatePageWith(pageId, diff, fails)
  /\ UNCHANGED <<components, layouts, events, editingVersion, nextPageId,
                 cascadePending, pc>>
  /\ cloneIdle

-----------------------------------------------------------------------------
\* deletePage and rearrangePagesOnDelete (lines 195-240)

\* The orders in which pageRepository.find may return a set of rows: the
\* query states no ORDER BY.
Orders(rows) ==
  {f \in [1..Cardinality(rows) -> rows] : \A r \in rows : \E i \in DOMAIN f : f[i] = r}

\* rearrangePagesOnDelete comparing the bare array position.
rearrangePagesOnDelete_byPosition(pagesArray, pageDeletedIndex) ==
  [i \in DOMAIN pagesArray |->
     IF (i - 1) >= pageDeletedIndex
       THEN [pagesArray[i] EXCEPT !.index = @ - 1]
       ELSE pagesArray[i]]

\* pages.map((page, index) => ...): `index` is the array position, from 0
rearrangePagesOnDelete(pagesArray, pageDeletedIndex) ==
  [i \in DOMAIN pagesArray |->
     IF (i - 1) + 1 >= pageDeletedIndex
       THEN [pagesArray[i] EXCEPT !.index = @ - 1]
       ELSE pagesArray[i]]

\* deletePage without the home page check.
deletePageError_noHomeCheck(rows, pageId, version) ==
  IF pageId \notin {p.id : p \in rows} THEN "Page not found" ELSE ""

\* The error deletePage throws before it changes anything, "" when none.
deletePageError(rows, pageId, version) ==
  IF pageId \notin {p.id : p \in rows} THEN "Page not found"
  ELSE IF version.homePageId = pageId THEN "Cannot delete home page"
  ELSE ""

\* manager.update(Page, page.id, page) for every rearranged page
updateAll(rows, rearrangedPages) ==
  {p \in rows : \A i \in DOMAIN rearrangedPages : rearrangedPages[i].id # p.id}
    \cup {rearrangedPages[i] : i \in DOMAIN rearrangedPages}

\* The rows that go with a page row: the component and layout tables refer
\* to their owner with ON DELETE CASCADE.
componentsAfterPageDelete(rows, pageId) == {c \in rows : c.pageId # pageId}
layoutsAfterPageDelete(rows, comps, pageId) ==
  {l \in rows : \A c \in comps : c.pageId = pageId => l.componentId # c.id}

\* failAt: the statement that throws a store error, "none" when none does.
deletePage ==
  /\ Accept
  /\ \E pageId \in PageIdInputs, failAt \in {"none", "delete", "update"} :
       LET error == deletePageError(pages, pageId, editingVersion)
           pageExists == PageById(pageId)
           remaining == pages \ {pageExists}
       IN
       /\ pre' = Snapshot
       /\ IF error # ""
            THEN /\ lastOp' = Op("deletePage", pageId, error)
                 /\ UNCHANGED <<pages, components, layouts, cascadePending>>
            ELSE
              \* cascadeDeleteEvents is called and not awaited
              /\ cascadePending' = cascadePending \cup {pageExists.id}
              /\ IF failAt = "delete"
                   THEN /\ lastOp' = Op("deletePage", pageId, "store error")
                        /\ UNCHANGED <<pages, components, layouts>>
                   ELSE
                     \* pageRepository.delete runs outside the transaction
                     /\ components' = componentsAfterPageDelete(components, pageId)
                     /\ layouts' = layoutsAfterPageDelete(layouts, components, pageId)
                     /\ \E pagesArray \in Orders(findPages(remaining, pageExists.appVersionId)) :
                          LET rearrangedPages ==
                                rearrangePagesOnDelete(pagesArray, pageExists.index)
                              order == [i \in DOMAIN pagesArray |-> pagesArray[i].id]
                          IN  IF failAt = "update"
                                THEN \* the updates are rolled back, the delete is not
                                     /\ pages' = abortTransaction(remaining,
                                                  updateAll(remaining, rearrangedPages))
                                     /\ lastOp' = Op("deletePage", pageId, "store error")
                                ELSE /\ pages' = updateAll(remaining, rearrangedPages)
                                     /\ lastOp' = [Op("deletePage", pageId, "ok") EXCEPT
                                                     !.findOrder = order]
  /\ UNCHANGED <<events, editingVersion, nextPageId, pc>>
  /\ cloneIdle

\* The unawaited cascadeDeleteEvents(sourceId) finishes, at some moment
\* between two requests: the events of the source are deleted.
cascadeDeleteEvents ==
  /\ Idle
  /\ UNCHANGED served
  /\ \E sourceId \in cascadePending :
       /\ pre' = Snapshot
       /\ events' = events \ findAllEventsWithSourceId(events, sourceId)
       /\ cascadePending' = cascadePending \ {sourceId}
       /\ lastOp' = Op("cascadeDeleteEvents", sourceId, "ok")
  /\ UNCHANGED <<pages, components, layouts, editingVersion, nextPageId, pc>>
  /\ cloneIdle

-----------------------------------------------------------------------------
\* clonePage (lines 57-94)

\* allPages.filter(page => page.name.includes(pageName) || page.handle.includes(pageHandle))
pageNameORHandleExists(allPages, pageName, pageHandle) ==
  {page \in allPages : includes(page.name, pageName) \/ includes(page.handle, pageHandle)}

\* The clone named by the number of pages of the version.
clonedPageName_allPages(pageToClone, allPages) ==
  LET n == Cardinality(pageNameORHandleExists(allPages, copyName(pageToClone.name),
                                              copyHandle(pageToClone.handle)))
  IN  IF n > 0
        THEN [name |-> copyNameN(pageToClone.name, Cardinality(allPages)),
              handle |-> copyHandleN(pageToClone.handle, Cardinality(allPages))]
        ELSE [name |-> copyName(pageToClone.name),
              handle |-> copyHandle(pageToClone.handle)]

\* The name and the handle of the clone (lines 65-77).
clonedPageName(pageToClone, allPages) ==
  LET n == Cardinality(pageNameORHandleExists(allPages, copyName(pageToClone.name),
                                              copyHandle(pageToClone.handle)))
  IN  IF n > 0
        THEN [name |-> copyNameN(pageToClone.name, n),
              handle |-> copyHandleN(pageToClone.handle, n)]
        ELSE [name |-> copyName(pageToClone.name),
              handle |-> copyHandle(pageToClone.handle)]

\* The clone placed at the index of its source.
clonedPageIndex_same(pageToClone) == pageToClone.index

\* newPage.index (line 82)
clonedPageIndex(pageToClone) == pageToClone.index + 1

\* The copy of an event handler left with the source of the original.
cloneEvent_keepSource(event, map, sourceId, clonePageId) ==
  [id |-> generatedId(event.id, clonePageId),
   sourceId |-> event.sourceId,
   event |-> IF event.event.actionId = "control-component"
               THEN [event.event EXCEPT !.componentId = lookup(map, @)]
               ELSE event.event]

\* The copy of an event handler (lines 105-113 and 135-146): a
\* "control-component" payload is rewritten through the remap table as it is
\* at that moment.
cloneEvent(event, map, sourceId, clonePageId) ==
  [id |-> generatedId(event.id, clonePageId),
   sourceId |-> sourceId,
   event |-> IF event.event.actionId = "control-component"
               THEN [event.event EXCEPT !.componentId = lookup(map, @)]
               ELSE event.event]

\* The copies of the page's own events (lines 103-116); `map` is the remap
\* table when they are made.
clonePageEvents(pageEvents, map, clonePageId) ==
  {cloneEvent(event, map, clonePageId, clonePageId) : event \in pageEvents}

\* clonePage up to the start of the per-component callbacks.  failAt "save":
\* pageRepository.save throws.
clonePage ==
  /\ Accept
  /\ \E pageId \in PageIdInputs, failAt \in {"none", "save"} :
       /\ pre' = Snapshot
       /\ IF pageId \notin PageIds
            THEN /\ lastOp' = Op("clonePage", pageId, "Page not found")
                 /\ UNCHANGED <<pages, events, nextPageId, pc>>
                 /\ cloneIdle
            ELSE
              LET pageToClone == PageById(pageId)
                  named == clonedPageName(pageToClone, findPages(pages, AppVersionId))
                  clonePageId == nextPageId
                  pageComponents == findComponents(components, pageId)
                  pageEvents == findAllEventsWithSourceId(events, pageId)
              IN
              /\ nextPageId <= MaxPageId
              /\ IF failAt = "save"
                   THEN /\ lastOp' = Op("clonePage", pageId, "store error")
                        /\ UNCHANGED <<pages, events, nextPageId, pc>>
                        /\ cloneIdle
                   ELSE
                     \* pageRepository.save(newPage) runs outside the transaction
                     /\ pages' = pages \cup {Page(clonePageId, named.name, named.handle,
                                                  clonedPageIndex(pageToClone))}
                     /\ nextPageId' = nextPageId + 1
                     \* clonePageEventsAndComponents, in a transaction of its own
                     /\ clone' = [pageId |-> pageId, clonePageId |-> clonePageId,
                                  pageComponents |-> pageComponents]
                     /\ componentsIdMap' = <<>>
                     /\ events' = events \cup clonePageEvents(pageEvents, <<>>, clonePageId)
                     /\ cpc' = [c \in {x.id : x \in pageComponents} |-> "save"]
                     /\ clonedLayouts' = [c \in {x.id : x \in pageComponents} |-> {}]
                     /\ clonedEvents' = [c \in {x.id : x \in pageComponents} |-> {}]
                     /\ pc' = "components"
                     /\ lastOp' = Op("clonePage", pageId, "running")
  /\ UNCHANGED <<components, layouts, editingVersion, cascadePending>>

-----------------------------------------------------------------------------
\* clonePageEventsAndComponents, the callbacks of Promise.all (lines 119-154).
\* Each callback runs to its next await; the callbacks interleave freely.

Cloning(component) ==
  /\ pc = "components"
  /\ component \in clone.pageComponents

\* lines 121-124: the component is inserted and its new id recorded
saveComponent ==
  \E component \in clone.pageComponents :
    /\ Cloning(component)
    /\ cpc[component.id] = "save"
    /\ LET newComponent == [component EXCEPT
                              !.id = generatedId(component.id, clone.clonePageId),
                              !.pageId = clone.clonePageId]
       IN  /\ components' = components \cup {newComponent}
           /\ componentsIdMap' = (component.id :> newComponent.id) @@ componentsIdMap
    /\ cpc' = [cpc EXCEPT ![component.id] = "layouts"]
    /\ UNCHANGED <<pages, layouts, events, editingVersion, nextPageId, cascadePending,
                   served, pc, clone, clonedLayouts, clonedEvents, pre, lastOp>>

\* lines 125-130: the layouts of the component are read and copied
readLayouts ==
  \E component \in clone.pageComponents :
    /\ Cloning(component)
    /\ cpc[component.id] = "layouts"
    /\ clonedLayouts' =
         [clonedLayouts EXCEPT ![component.id] =
            {[layout EXCEPT !.id = generatedId(layout.id, clone.clonePageId),
                            !.componentId = componentsIdMap[component.id]] :
               layout \in findLayouts(layouts, component.id)}]
    /\ cpc' = [cpc EXCEPT ![component.id] = "events"]
    /\ UNCHANGED <<pages, components, layouts, events, editingVersion, nextPageId,
                   cascadePending, served, pc, clone, componentsIdMap, clonedEvents, pre, lastOp>>

\* lines 133-147: the events of the component are read and copied
readComponentEvents ==
  \E component \in clone.pageComponents :
    /\ Cloning(component)
    /\ cpc[component.id] = "events"
    /\ clonedEvents' =
         [clonedEvents EXCEPT ![component.id] =
            {cloneEvent(event, componentsIdMap, componentsIdMap[component.id],
                        clone.clonePageId) :
               event \in findAllEventsWithSourceId(events, component.id)}]
    /\ cpc' = [cpc EXCEPT ![component.id] = "saveLayouts"]
    /\ UNCHANGED <<pages, components, layouts, events, editingVersion, nextPageId,
                   cascadePending, served, pc, clone, componentsIdMap, clonedLayouts, pre, lastOp>>

\* line 149
saveLayouts ==
  \E component \in clone.pageComponents :
    /\ Cloning(component)
    /\ cpc[component.id] = "saveLayouts"
    /\ layouts' = layouts \cup clonedLayouts[component.id]
    /\ cpc' = [cpc EXCEPT ![component.id] = "saveEvents"]
    /\ UNCHANGED <<pages, components, events, editingVersion, nextPageId, cascadePending,
                   served, pc, clone, componentsIdMap, clonedLayouts, clonedEvents, pre, lastOp>>

\* lines 150-152
saveEvents ==
  \E component \in clone.pageComponents :
    /\ Cloning(component)
    /\ cpc[component.id] = "saveEvents"
    /\ events' = events \cup clonedEvents[component.id]
    /\ cpc' = [cpc EXCEPT ![component.id] = "done"]
    /\ UNCHANGED <<pages, components, layouts, editingVersion, nextPageId, cascadePending,
                   served, pc, clone, componentsIdMap, clonedLayouts, clonedEvents, pre, lastOp>>

\* The second pass leaving the parent of the original.
remappedParent_kept(component, map) == component.parent

\* The parent a cloned component gets in the second pass (lines 157-160).
remappedParent(component, map) ==
  IF lookup(map, component.parent) # undefined
    THEN lookup(map, component.parent)
    ELSE component.parent

\* lines 156-161, once every callback has returned; the transaction of
\* clonePageEventsAndComponents commits.
remapParents ==
  /\ pc = "components"
  /\ \A c \in DOMAIN cpc : cpc[c] = "done"
  /\ LET clonedComponents == {componentsIdMap[c] : c \in DOMAIN componentsIdMap}
     IN  components' =
           {IF component.id \in clonedComponents
              THEN [component EXCEPT !.parent = remappedParent(component, componentsIdMap)]
              ELSE component : component \in components}
  /\ pc' = "listing"
  /\ UNCHANGED <<pages, layouts, events, editingVersion, nextPageId, cascadePending,
                 served, clone, cpc, componentsIdMap, clonedLayouts, clonedEvents, pre, lastOp>>

\* lines 89-92: the listings are loaded and returned
cloneReturn ==
  /\ pc = "listing"
  /\ pc' = "idle"
  /\ lastOp' = [lastOp EXCEPT !.status = "ok"]
  /\ UNCHANGED <<pages, components, layouts, events, editingVersion, nextPageId,
                 cascadePending, served, clone, cpc, componentsIdMap, clonedLayouts,
                 clonedEvents, pre>>

\* A store error while the clone runs.  Thrown inside
\* clonePageEventsAndComponents, it aborts that transaction: the rows written
\* through its manager go, the page row saved through pageRepository stays.
\* Thrown while the listings load, it finds that transaction committed.
cloneFail ==
  /\ pc \in {"components", "listing"}
  /\ IF pc = "components"
       THEN /\ components' = abortTransaction(pre.components, components)
            /\ layouts' = abortTransaction(pre.layouts, layouts)
            /\ events' = abortTransaction(pre.events, events)
       ELSE UNCHANGED <<components, layouts, events>>
  /\ pc' = "idle"
  /\ lastOp' = [lastOp EXCEPT !.status = "store error"]
  /\ UNCHANGED <<pages, editingVersion, nextPageId, cascadePending, served, clone, cpc,
                 componentsIdMap, clonedLayouts, clonedEvents, pre>>

-----------------------------------------------------------------------------
Next ==
  \/ createPage
  \/ updatePage
  \/ deletePage
  \/ cascadeDeleteEvents
  \/ clonePage
  \/ saveComponent
  \/ readLayouts
  \/ readComponentEvents
  \/ saveLayouts
  \/ saveEvents
  \/ remapParents
  \/ cloneReturn
  \/ cloneFail

Spec == Init /\ [][Next]_vars

-----------------------------------------------------------------------------
\* Vocabulary of the properties

\* The page, component, layout and event rows are those held when the last
\* request was called.
RowsUnchanged ==
  /\ pages = pre.pages
  /\ components = pre.components
  /\ layouts = pre.layouts
  /\ events = pre.events

Ids(rows) == {r.id : r \in rows}
RowById(rows, id) == CHOOSE r \in rows : r.id = id

\* The index values of the rows are base, base + 1, ..., one per row.
DenseFrom(rows, base) ==
  /\ {p.index : p \in rows} = base..(base + Cardinality(rows) - 1)
  /\ \A p, q \in rows : p.index = q.index => p = q

\* deletePage returned normally.
DeleteSucceeded == lastOp.kind = "deletePage" /\ lastOp.status = "ok"

\* The find of deletePage returned the remaining pages in index order.
FoundInIndexOrder ==
  \A i, j \in DOMAIN lastOp.findOrder :
    i < j => RowById(pre.pages, lastOp.findOrder[i]).index
               < RowById(pre.pages, lastOp.findOrder[j]).index

\* The pages that are left keep their relative order by index.
OrderKept ==
  \A p, q \in pages :
    RowById(pre.pages, p.id).index < RowById(pre.pages, q.id).index => p.index < q.index

\* clonePage returned normally; P is the source page, P' the clone.
CloneSucceeded == pc = "idle" /\ lastOp.kind = "clonePage" /\ lastOp.status = "ok"
SourcePage == RowById(pre.pages, lastOp.pageId)
ClonePage == RowById(pages, clone.clonePageId)
SourceComponents == findComponents(pre.components, lastOp.pageId)
CloneComponents == findComponents(components, clone.clonePageId)

\* The events a page and its components own, and the layouts its components own.
OwnedEvents(eventRows, componentRows, pageId) ==
  {e \in eventRows : e.sourceId = pageId \/ e.sourceId \in Ids(componentRows)}
OwnedLayouts(layoutRows, componentRows) ==
  {l \in layoutRows : l.componentId \in Ids(componentRows)}

\* e is a "control-component" event whose payload names a component of P.
ControlsSourceComponent(e) ==
  /\ e.event.actionId = "control-component"
  /\ e.event.componentId \in Ids(SourceComponents)

\* The copy of event e references the clone of the component e references.
CopyReferencesClone(e) ==
  \E copy \in events :
    /\ copy.id = generatedId(e.id, clone.clonePageId)
    /\ copy.event.componentId = lookup(componentsIdMap, e.event.componentId)
    /\ copy.event.componentId \in Ids(CloneComponents)
    /\ copy.event.componentId \notin Ids(SourceComponents)

HomeCopy1 == <<"H", "o", "m", "e", " ", "(", "c", "o", "p", "y", " ", "1", ")">>
homeCopy1 == <<"h", "o", "m", "e", "-", "c", "o", "p", "y", "-", "1">>

-----------------------------------------------------------------------------
C2_ClonedEventsReferenceClones ==
  CloneSucceeded =>
    \A e \in OwnedEvents(pre.events, SourceComponents, lastOp.pageId) :
      ControlsSourceComponent(e) => CopyReferencesClone(e)

\* C3: after clonePage returns, the copy of every component whose parent is
\* a component of the source page has the clone of that parent as its
\* parent, and not the original parent.
C3_ClonedParentsReferenceClones ==
  CloneSucceeded =>
    \A c \in SourceComponents :
      c.parent \in Ids(SourceComponents) =>
        \E copy \in CloneComponents :
          /\ copy.id = lookup(componentsIdMap, c.id)
          /\ copy.parent = lookup(componentsIdMap, c.parent)
          /\ copy.parent \in Ids(CloneComponents)
          /\ copy.parent # c.parent

\* A page with a nested component was cloned.
C3_Witness ==
  /\ CloneSucceeded
  /\ \E c \in SourceComponents : c.parent \in Ids(SourceComponents)

\* C4: deletePage of the home page fails with 'Cannot delete home page',
\* changes no row and starts no cascade delete.
C4_HomePageIsNotDeleted ==
  (lastOp.kind = "deletePage" /\ lastOp.pageId = editingVersion.homePageId)
    => /\ lastOp.status = "Cannot delete home page"
       /\ RowsUnchanged
       /\ cascadePending = pre.cascadePending

\* deletePage was called on a home page that owns components and events.
C4_Witness ==
  /\ lastOp.kind = "deletePage"
  /\ lastOp.pageId = editingVersion.homePageId
  /\ findAllEventsWithSourceId(events, lastOp.pageId) # {}
  /\ findComponents(components, lastOp.pageId) # {}

\* C5: a createPage, clonePage, updatePagesOrder or deletePage that fails
\* with a store error after it started leaves the rows it found.
C5_AllOrNothing ==
  (/\ pc = "idle"
   /\ lastOp.status = "store error"
   /\ \/ lastOp.kind \in {"createPage", "clonePage", "deletePage"}
      \/ lastOp.kind = "updatePage" /\ lastOp.numKeys > 1)
    => RowsUnchanged

\* C6: a successful clonePage adds exactly one page, named and handled
\* differently from the source, that owns as many components, layouts and
\* event handlers as the source.
C6_CloneHasSameCounts ==
  CloneSucceeded =>
    /\ pre.pages \subseteq pages
    /\ Cardinality(pages \ pre.pages) = 1
    /\ ClonePage \notin pre.pages
    /\ ClonePage.name # SourcePage.name
    /\ ClonePage.handle # SourcePage.handle
    /\ Cardinality(CloneComponents) = Cardinality(SourceComponents)
    /\ Cardinality(OwnedLayouts(layouts, CloneComponents))
         = Cardinality(OwnedLayouts(pre.layouts, SourceComponents))
    /\ Cardinality(OwnedEvents(events, CloneComponents, clone.clonePageId))
         = Cardinality(OwnedEvents(pre.events, SourceComponents, lastOp.pageId))

\* A page with two components, three layouts and four events was cloned.
C6_Witness ==
  /\ CloneSucceeded
  /\ Cardinality(SourceComponents) = 2
  /\ Cardinality(OwnedLayouts(pre.layouts, SourceComponents)) = 3
  /\ Cardinality(OwnedEvents(pre.events, SourceComponents, lastOp.pageId)) = 4

\* C7 (as stated): updatePage of a page that does not exist fails with
\* 'Page not found' and changes no row, whatever the number of keys of the
\* diff.
C7_UpdateOfMissingPageFails ==
  (lastOp.kind = "updatePage" /\ lastOp.pageId \notin Ids(pre.pages))
    => (lastOp.status = "Page not found" /\ RowsUnchanged)

\* C7 (amended): updatePage of a page that does not exist, with a diff of
\* at most one key, fails with 'Page not found' and changes no row.
C7_FieldUpdateOfMissingPageFails ==
  (lastOp.kind = "updatePage" /\ lastOp.pageId \notin Ids(pre.pages)
     /\ lastOp.numKeys <= 1)
    => (lastOp.status = "Page not found" /\ RowsUnchanged)

\* updatePage was called with a one-key diff for a page that does not exist.
C7_Witness ==
  /\ lastOp.kind = "updatePage"
  /\ lastOp.pageId \notin Ids(pre.pages)
  /\ lastOp.numKeys = 1

\* C8: the clone of a page named N with handle H is named by the number n
\* of pages whose name contains "N (copy)" or whose handle contains
\* "H-copy": "N (copy)" and "H-copy" when n = 0, "N (copy n)" and
\* "H-copy-n" when n >= 1; the clone of "Home" / "home" beside one such
\* page, "Home (copy)", is "Home (copy 1)" / "home-copy-1".
C8_CloneIsNamedByCollisionCount ==
  (lastOp.kind = "clonePage" /\ clone.clonePageId # undefined) =>
    LET N == SourcePage.name
        H == SourcePage.handle
        n == Cardinality({p \in pre.pages :
                            \/ includes(p.name, N \o <<" ", "(", "c", "o", "p", "y", ")">>)
                            \/ includes(p.handle, H \o <<"-", "c", "o", "p", "y">>)})
    IN  /\ n = 0 =>
             /\ ClonePage.name = N \o <<" ", "(", "c", "o", "p", "y", ")">>
             /\ ClonePage.handle = H \o <<"-", "c", "o", "p", "y">>
        /\ (n >= 1 /\ n <= 9) =>
             /\ ClonePage.name =
                  N \o <<" ", "(", "c", "o", "p", "y", " ", DigitChars[n + 1], ")">>
             /\ ClonePage.handle =
                  H \o <<"-", "c", "o", "p", "y", "-", DigitChars[n + 1]>>
        /\ (N = Home /\ H = home /\ n = 1
              /\ \E p \in pre.pages : p.name = copyName(Home)) =>
             /\ ClonePage.name = HomeCopy1
             /\ ClonePage.handle = homeCopy1

\* "Home" was cloned beside "Home (copy)" and one other page.
C8_Witness ==
  /\ CloneSucceeded
  /\ SourcePage.name = Home
  /\ Cardinality(pre.pages) = 3
  /\ \E p \in pre.pages : p.name = copyName(Home)
  /\ ClonePage.name = HomeCopy1
  /\ ClonePage.handle = homeCopy1

\* C9: in whatever order the inserts and reads of the per-component
\* callbacks complete, the copy of every component-owned "control-component"
\* event that referenced a component of the page references the clone of
\* that component.
C9_ComponentEventsReferenceClonesInEveryOrder ==
  CloneSucceeded =>
    \A e \in pre.events :
      (e.sourceId \in Ids(SourceComponents) /\ ControlsSourceComponent(e))
        => CopyReferencesClone(e)

\* C10: a successful clonePage only adds rows: the new page has the index of
\* the source plus one, and every page, component, layout and event handler
\* held before is held unchanged.
C10_CloneOnlyAddsRows ==
  CloneSucceeded =>
    /\ ClonePage.index = SourcePage.index + 1
    /\ pre.pages \subseteq pages
    /\ pre.components \subseteq components
    /\ pre.layouts \subseteq layouts
    /\ pre.events \subseteq events
    /\ \A p \in pages : p.id \in Ids(pre.pages) => p \in pre.pages
    /\ \A c \in components : c.id \in Ids(pre.components) => c \in pre.components
    /\ \A l \in layouts : l.id \in Ids(pre.layouts) => l \in pre.layouts
    /\ \A e \in events : e.id \in Ids(pre.events) => e \in pre.events

\* A page with components and events was cloned next to a page that already
\* carries the index the clone gets.
C10_Witness ==
  /\ CloneSucceeded
  /\ SourceComponents # {}
  /\ OwnedEvents(pre.events, SourceComponents, lastOp.pageId) # {}
  /\ \E p \in pre.pages : p.index = SourcePage.index + 1

====
